---- MODULE Spec2Model ----
(***************************************************************************)
(* A model of keras-alexnet: the Grad-CAM / guided back-propagation        *)
(* visualisation script (gradcam.py) and the part of the training script   *)
(* (alexnet.py) that persists the model it reads.                          *)
(*                                                                         *)
(* Real numbers are fixed-point integers with Scale units to 1.0; NaN is   *)
(* the result of 0/0.  Tensors are functions from index tuples to values.  *)
(* The tensor library (TensorFlow/Keras forward and backward passes) is    *)
(* outside the repository: what it returns is drawn from small sets.       *)
(***************************************************************************)
EXTENDS Integers, Sequences, FiniteSets, TLC

VARIABLES
    \* _GuidedBackProp applied to one op (SpecRule)
    grad,            \* incoming gradient tensor
    op_input,        \* op.inputs[0], the forward input of the ReLU
    rule_out,        \* what the rule returned, <<>> before the call
    \* the process-wide state guided_backprop works on (SpecGuided, Spec)
    registry,        \* ops._gradient_registry._registry: the registered names, in order
    model,           \* the layers of the model handed to guided_backprop
    model0,          \* history: the layers as load_model returned them
    guided_model,    \* the model modify_backprop returned, <<>> before
    saliency,        \* the array guided_backprop returned, <<>> before
    calls,           \* calls of guided_backprop made so far
    gerr,            \* the exception guided_backprop raised, "none" otherwise
    \* the file system
    cwd,             \* os.getcwd()
    dirs,            \* the directories that exist
    files,           \* path -> content of the files that exist
    \* grad_cam (SpecGradCam, Spec)
    conv_output,     \* output[0, ...]: the conv layer's output for the image
    grads_val,       \* grads_val[0, ...]: the class score's gradient w.r.t. it
    height,          \* grad_cam's height argument
    width,           \* grad_cam's width argument
    heatmap,         \* the array grad_cam returned, <<>> before
    \* gradcam.py main (Spec)
    pc,              \* the statement of main that runs next
    args,            \* parse_arguments(): [p |-> model path, o |-> output directory]
    n_test,          \* len(x_test)
    index,           \* the sample index drawn
    img,             \* the preprocessed image array
    predicted_class, \* np.argmax(predictions)
    guided_gradcam,  \* the guided Grad-CAM array
    err,             \* the exception that ended main, "none" otherwise
    \* history: the values as produced and as consumed
    img_pre,         \* img as preprocess_image returned it
    fed_predict,     \* the image values model.predict received
    fed_gradcam,     \* the image values grad_cam received
    fed_backprop,    \* the image values guided_backprop received
    heatmap_ret,     \* heatmap as grad_cam returned it
    saliency_ret,    \* saliency as guided_backprop returned it
    guided_ret,      \* guided_gradcam as line 192 computed it
    \* alexnet.py main, then gradcam.py's load of what it saved (SpecPersist)
    tpc,             \* the statement of alexnet.py main that runs next
    argv,            \* sys.argv of the training run
    alex_model,      \* the model in memory: its layers and weights
    load_result      \* how gradcam.py's load_model(path) ended, "pending" before

mainVars == <<pc, args, n_test, index, img, predicted_class, guided_gradcam, err>>
histVars == <<img_pre, fed_predict, fed_gradcam, fed_backprop, heatmap_ret,
              saliency_ret, guided_ret>>
persistVars == <<tpc, argv, alex_model, load_result>>
camVars == <<conv_output, grads_val, height, width, heatmap>>
ruleVars == <<grad, op_input, rule_out>>
guidedVars == <<registry, model, model0, guided_model, saliency, calls, gerr>>
fsVars == <<cwd, dirs, files>>
vars == <<ruleVars, guidedVars, fsVars, camVars, mainVars, histVars, persistVars>>

(***************************************************************************)
(* Bounds                                                                  *)
(***************************************************************************)
MaxAbs == 2        \* gradient and input values range over -MaxAbs..MaxAbs
TensorLen == 2     \* elements of the tensors the gradient rule is applied to
NumLayers == 3     \* layers of the model
MaxCalls == 3      \* calls of guided_backprop in one process
ConvRows == 1      \* spatial rows of the conv layer's output
ConvCols == 2      \* spatial columns of the conv layer's output
ConvChannels == 2  \* channels of the conv layer's output
MaxDim == 3        \* grad_cam's height and width range over 1..MaxDim
ImgSize == 2       \* rows and columns of the preprocessed image (224 in the code)
RawSize == 1       \* rows and columns of a dataset image (32 in CIFAR-100)
Channels == 1      \* colour channels of an image
MaxPixel == 2      \* dataset pixel values range over 0..MaxPixel
MaxArgs == 3       \* len(sys.argv) ranges over 1..MaxArgs
MaxWeight == 2     \* trained weights range over 1..MaxWeight
MaxTest == 2       \* len(x_test) ranges over 1..MaxTest
NumClasses == 2    \* the classes the model predicts

\* fixed point: Scale units are 1.0
Scale == 100
\* the result of 0/0, and of converting it to an integer type (unspecified)
NaN == 0 - 1000000

RuleIdle == grad = <<>> /\ op_input = <<>> /\ rule_out = <<>>
GuidedIdle ==
    /\ registry = <<>> /\ model = <<>> /\ model0 = <<>> /\ guided_model = <<>>
    /\ saliency = <<>> /\ calls = 0 /\ gerr = "none"
FsIdle == cwd = <<>> /\ dirs = {} /\ files = <<>>
PersistIdle ==
    tpc = "idle" /\ argv = <<>> /\ alex_model = <<>> /\ load_result = "pending"
MainIdle ==
    /\ pc = "idle" /\ args = <<>> /\ n_test = 0 /\ index = 0 /\ img = <<>>
    /\ predicted_class = 0 /\ guided_gradcam = <<>> /\ err = "none"
    /\ img_pre = <<>> /\ fed_predict = <<>> /\ fed_gradcam = <<>>
    /\ fed_backprop = <<>> /\ heatmap_ret = <<>> /\ saliency_ret = <<>>
    /\ guided_ret = <<>>
CamIdle ==
    /\ conv_output = <<>> /\ grads_val = <<>> /\ height = 0 /\ width = 0
    /\ heatmap = <<>>

(***************************************************************************)
(* gradcam.py, _GuidedBackProp                                             *)
(***************************************************************************)
\* tf.cast(b, dtype): a boolean as 1.0 or 0.0
Cast(b) == IF b THEN 1 ELSE 0

GuidedBackPropNoInputMask(x, g) ==
    [i \in DOMAIN g |-> g[i] * Cast(g[i] > 0)]

\* grad * tf.cast(grad > 0., dtype) * tf.cast(op.inputs[0] > 0., dtype)
GuidedBackProp(x, g) ==
    [i \in DOMAIN g |-> g[i] * Cast(g[i] > 0) * Cast(x[i] > 0)]

RuleValues == (0 - MaxAbs)..MaxAbs
RuleTensors == [1..TensorLen -> RuleValues]

RuleInit ==
    /\ grad \in RuleTensors
    /\ op_input \in RuleTensors
    /\ rule_out = <<>>
    /\ GuidedIdle /\ FsIdle /\ CamIdle /\ MainIdle /\ PersistIdle

ApplyRule ==
    /\ rule_out = <<>>
    /\ rule_out' = GuidedBackProp(op_input, grad)
    /\ UNCHANGED <<grad, op_input, guidedVars, fsVars, camVars, mainVars, histVars,
                   persistVars>>

RuleNext == ApplyRule
SpecRule == RuleInit /\ [][RuleNext]_vars

\* C3: the rule returns the incoming gradient where both it and the forward
\* input are strictly positive, and 0 everywhere else (zero counts as not positive).
C3_RuleMasksNonPositive ==
    rule_out # <<>> =>
        \A i \in 1..TensorLen :
            rule_out[i] = IF grad[i] > 0 /\ op_input[i] > 0 THEN grad[i] ELSE 0

\* all four sign combinations and both zero cases occur in one applied tensor pair
C3_Witness ==
    /\ rule_out # <<>>
    /\ \E i \in 1..TensorLen : grad[i] > 0 /\ op_input[i] = 0 /\ rule_out[i] = 0
    /\ \E i \in 1..TensorLen : grad[i] > 0 /\ op_input[i] > 0 /\ rule_out[i] = grad[i]

(***************************************************************************)
(* The file system and keras.models.load_model                             *)
(***************************************************************************)
\* A path is a sequence of components, a component a pair <<stem, suffix>>.
Dir(s) == <<s, "">>
\* os.path.join of a path and a relative path
Join(a, b) == a \o b
Parent(p) == SubSeq(p, 1, Len(p) - 1)
\* alexnet.py default_model_dir, default_model_name, joined
default_model_dir == <<Dir("saved_models")>>
default_model_name == <<(<<"keras_alexnet", ".h5">>)>>
ModelPath == Join(default_model_dir, default_model_name)
Home == <<Dir("home")>>

Range(f) == {f[i] : i \in DOMAIN f}

\* gradcam.py load_model: keras.models.load_model needs a file that holds the
\* architecture; a missing file is an IOError, a weights-only file a ValueError
\* (a relative path is resolved against the working directory)
load_model(fs, wd, path) ==
    LET f == Join(wd, path) IN
    IF f \notin DOMAIN fs THEN [err |-> "IOError", layers |-> <<>>]
    ELSE IF fs[f].kind # "model" THEN [err |-> "ValueError", layers |-> <<>>]
    ELSE [err |-> "none", layers |-> fs[f].layers]

(***************************************************************************)
(* gradcam.py, guided_backprop                                             *)
(***************************************************************************)
\* what a layer's activation attribute can be; "none": the layer has no such attribute
LayerKinds == {"none", "keras.activations.relu", "keras.activations.linear",
               "keras.activations.softmax"}
\* the names Keras gives the layers, in the order of the model
LayerNames == <<"conv2d_1", "conv2d_5", "dense_1", "dense_2", "dense_3", "activation_1">>
Models ==
    {[i \in 1..NumLayers |-> [name |-> LayerNames[i], activation |-> a[i]]] :
        a \in [1..NumLayers -> LayerKinds]}

\* ops.RegisterGradient(name): the registry refuses a name it already holds
RegisterGradient(reg, name) ==
    IF name \in Range(reg) THEN [registry |-> reg, err |-> "KeyError"]
    ELSE [registry |-> Append(reg, name), err |-> "none"]

RegisterGuidedUnguarded(reg) == RegisterGradient(reg, "GuidedBackProp")

\* if "GuidedBackProp" not in ops._gradient_registry._registry: register it
RegisterGuided(reg) ==
    IF "GuidedBackProp" \notin Range(reg)
    THEN RegisterGradient(reg, "GuidedBackProp")
    ELSE [registry |-> reg, err |-> "none"]

ReplaceReluAllLayers(m) ==
    [i \in DOMAIN m |->
        IF m[i].activation = "keras.activations.relu"
        THEN [m[i] EXCEPT !.activation = "tf.nn.relu"] ELSE m[i]]

\* modify_backprop's loop over model.layers[1:]: a layer that has an activation
\* equal to keras.activations.relu gets tf.nn.relu assigned, in the model given
ReplaceRelu(m) ==
    [i \in DOMAIN m |->
        IF i > 1 /\ m[i].activation = "keras.activations.relu"
        THEN [m[i] EXCEPT !.activation = "tf.nn.relu"] ELSE m[i]]

\* model.get_layer(name)
HasLayer(layers, name) == \E i \in DOMAIN layers : layers[i].name = name

\* the gradients the guided model can return for an image: one value per element
SalValues == {0 - Scale, 0, Scale}
SaliencyTensors(image) == [DOMAIN image -> SalValues]

\* guided_backprop(model, image, target_layer, path), the whole call; sal is the
\* value the tensor library computes for the saliency function
guided_backprop(image, target_layer, path, sal) ==
    LET r == RegisterGuided(registry)
        l == load_model(files, cwd, path)
    IN  /\ calls' = calls + 1
        /\ registry' = r.registry
        /\ IF r.err # "none"
           THEN gerr' = r.err /\ UNCHANGED <<model, guided_model, saliency>>
           ELSE /\ model' = ReplaceRelu(model)
                /\ IF l.err # "none"
                   THEN gerr' = l.err /\ UNCHANGED <<guided_model, saliency>>
                   ELSE /\ guided_model' =
                              [layers |-> l.layers, relu_gradient |-> "GuidedBackProp"]
                        /\ IF ~HasLayer(l.layers, target_layer)
                           THEN gerr' = "ValueError" /\ UNCHANGED saliency
                           ELSE IF "GuidedBackProp" \notin Range(r.registry)
                           THEN gerr' = "LookupError" /\ UNCHANGED saliency
                           ELSE gerr' = "none" /\ saliency' = sal
        /\ UNCHANGED model0

GuidedImages == [{<<1, 1, 1>>} -> {0, 1}]

\* the registry holds TensorFlow's own rules; another module of the process
\* may have registered the guided rule already
GuidedInit ==
    /\ RuleIdle /\ CamIdle /\ MainIdle /\ PersistIdle
    /\ registry \in {<<"Relu">>, <<"Relu", "GuidedBackProp">>}
    /\ model \in Models
    /\ model0 = model
    /\ guided_model = <<>>
    /\ saliency = <<>>
    /\ calls = 0
    /\ gerr = "none"
    /\ cwd = Home
    /\ dirs = {Home, Join(Home, default_model_dir)}
    /\ files = (Join(Home, ModelPath) :> [kind |-> "model", layers |-> model])

GuidedCall ==
    /\ calls < MaxCalls
    /\ gerr = "none"
    /\ \E image \in GuidedImages, target_layer \in {"conv2d_1", "conv2d_5", "conv2d_9"} :
         \E sal \in SaliencyTensors(image) :
            guided_backprop(image, target_layer, ModelPath, sal)
    /\ UNCHANGED <<ruleVars, fsVars, camVars, mainVars, histVars, persistVars>>

GuidedNext == GuidedCall
SpecGuided == GuidedInit /\ [][GuidedNext]_vars

Count(reg, name) == Cardinality({i \in DOMAIN reg : reg[i] = name})

\* C4: after any number of calls the registry holds exactly one rule named
\* GuidedBackProp, no call fails with a duplicate registration, and a
\* registered rule is never removed.
C4_RegisteredExactlyOnce ==
    /\ gerr # "KeyError"
    /\ calls >= 1 => Count(registry, "GuidedBackProp") = 1
    /\ Count(registry, "GuidedBackProp") <= 1

C4_Witness ==
    /\ calls >= 2 /\ gerr = "none" /\ saliency # <<>>
    /\ registry = <<"Relu", "GuidedBackProp">>

\* C6 as stated: the model handed to guided_backprop is the same after the call.
C6_ModelUnchanged == model = model0

\* C6 amended: a call changes nothing of the given model but the activation of
\* the layers after the first whose activation is keras.activations.relu, which
\* becomes tf.nn.relu; the first layer and every other attribute stay as loaded.
C6_OnlyLaterReluReplaced ==
    /\ DOMAIN model = DOMAIN model0
    /\ \A i \in DOMAIN model :
        /\ model[i].name = model0[i].name
        /\ model[i].activation =
              IF calls >= 1 /\ gerr # "KeyError" /\ i > 1
                 /\ model0[i].activation = "keras.activations.relu"
              THEN "tf.nn.relu" ELSE model0[i].activation

C6_Witness ==
    /\ calls >= 1
    /\ model0[1].activation = "keras.activations.relu"
    /\ model[1].activation = "keras.activations.relu"
    /\ model0[2].activation = "keras.activations.relu"
    /\ model[2].activation = "tf.nn.relu"
    /\ guided_model # <<>>
    /\ guided_model.layers = model0

(***************************************************************************)
(* Array arithmetic (numpy, cv2)                                           *)
(***************************************************************************)
RECURSIVE SumOver(_, _)
SumOver(S, f) ==
    IF S = {} THEN 0
    ELSE LET x == CHOOSE y \in S : TRUE IN f[x] + SumOver(S \ {x}, f)

MaxOf(S) == CHOOSE m \in S : \A y \in S : y <= m
MinOf(S) == CHOOSE m \in S : \A y \in S : m <= y
Min2(a, b) == IF a <= b THEN a ELSE b
Max2(a, b) == IF a >= b THEN a ELSE b

\* a / b on floats: 0/0 is NaN, and NaN stays NaN
FDiv(a, b) ==
    IF a = NaN \/ b = NaN THEN NaN
    ELSE IF b = 0 THEN NaN
    ELSE (a * Scale) \div b

\* a * b on floats
FMul(a, b) == IF a = NaN \/ b = NaN THEN NaN ELSE (a * b) \div Scale

Grid(rows, cols) == (1..rows) \X (1..cols)

\* cv2.resize(src, dsize) with the default bilinear interpolation; dsize is
\* (columns, rows) of the result, so the array returned has dsize[2] rows and
\* dsize[1] columns.  Pixel centres are aligned and the source is clamped at
\* its border.
ResizeCoord(d, srcN, dstN) ==
    LET num == (2 * (d - 1) + 1) * srcN - dstN
        den == 2 * dstN
        s0 == num \div den
    IN  IF s0 < 0 THEN [lo |-> 1, hi |-> 1, f |-> 0, den |-> den]
        ELSE IF s0 >= srcN - 1 THEN [lo |-> srcN, hi |-> srcN, f |-> 0, den |-> den]
        ELSE [lo |-> s0 + 1, hi |-> s0 + 2, f |-> num - s0 * den, den |-> den]

cv2_resize(src, srcRows, srcCols, dsize) ==
    LET rows == dsize[2]
        cols == dsize[1]
    IN  [shape |-> <<rows, cols>>,
         val |-> [p \in Grid(rows, cols) |->
            LET y == ResizeCoord(p[1], srcRows, rows)
                x == ResizeCoord(p[2], srcCols, cols)
            IN  ( src[<<y.lo, x.lo>>] * (y.den - y.f) * (x.den - x.f)
                + src[<<y.lo, x.hi>>] * (y.den - y.f) * x.f
                + src[<<y.hi, x.lo>>] * y.f * (x.den - x.f)
                + src[<<y.hi, x.hi>>] * y.f * x.f ) \div (y.den * x.den)]]

(***************************************************************************)
(* gradcam.py, grad_cam                                                    *)
(***************************************************************************)
ConvIdx == (1..ConvRows) \X (1..ConvCols) \X (1..ConvChannels)
\* the conv layer ends in a ReLU: its output is never negative
ConvOutputs == [ConvIdx -> {0, Scale}]
GradVals == [ConvIdx -> {0 - Scale, 0, Scale}]

\* weights = np.mean(grads_val, axis=(0, 1))
CamWeights(g) ==
    [k \in 1..ConvChannels |->
        SumOver(Grid(ConvRows, ConvCols),
                [p \in Grid(ConvRows, ConvCols) |-> g[<<p[1], p[2], k>>]])
            \div (ConvRows * ConvCols)]

\* cam = np.maximum(np.dot(output, weights), 0)
CamRelu(out, g) ==
    LET w == CamWeights(g) IN
    [p \in Grid(ConvRows, ConvCols) |->
        Max2(SumOver(1..ConvChannels,
                     [k \in 1..ConvChannels |-> FMul(out[<<p[1], p[2], k>>], w[k])]), 0)]

\* cam = cv2.resize(cam, (height, width))
CamResized(out, g, h, w) == cv2_resize(CamRelu(out, g), ConvRows, ConvCols, <<h, w>>)

\* return cam / np.max(cam)
DivideByMax(cam) ==
    LET m == MaxOf(Range(cam.val)) IN
    [shape |-> cam.shape, val |-> [p \in DOMAIN cam.val |-> FDiv(cam.val[p], m)]]

\* grad_cam from the values gradient_function returned: the heatmap
grad_cam(out, g, h, w) == DivideByMax(CamResized(out, g, h, w))

GradCamInit ==
    /\ RuleIdle /\ GuidedIdle /\ FsIdle /\ MainIdle /\ PersistIdle
    /\ conv_output \in ConvOutputs
    /\ grads_val \in GradVals
    /\ height \in 1..MaxDim
    /\ width \in 1..MaxDim
    /\ heatmap = <<>>

CallGradCam ==
    /\ heatmap = <<>>
    /\ heatmap' = grad_cam(conv_output, grads_val, height, width)
    /\ UNCHANGED <<conv_output, grads_val, height, width, ruleVars, guidedVars, fsVars,
                   mainVars, histVars, persistVars>>

GradCamNext == CallGradCam
SpecGradCam == GradCamInit /\ [][GradCamNext]_vars

CamMax == MaxOf(Range(CamResized(conv_output, grads_val, height, width).val))

\* C2: the heatmap has shape (height, width), also for height # width, and
\* when the map's maximum is positive its values lie in [0, 1] with maximum 1.
\* (The all-zero map is C5's case.)
C2_ShapeAndRange ==
    heatmap # <<>> =>
        /\ heatmap.shape = <<height, width>>
        /\ CamMax > 0 =>
              /\ \A p \in DOMAIN heatmap.val :
                    heatmap.val[p] >= 0 /\ heatmap.val[p] <= Scale
              /\ \E p \in DOMAIN heatmap.val : heatmap.val[p] = Scale

\* what the code does return: width rows and height columns
C2_ShapeSwapped ==
    heatmap # <<>> /\ height # width /\ heatmap.shape = <<width, height>>

\* C5: when the map is all zero after the clamp, grad_cam returns the all-zero
\* map (or fails with an error) and does not divide by the zero maximum.
C5_ZeroMapHandled ==
    (heatmap # <<>> /\ CamMax = 0) =>
        \A p \in DOMAIN heatmap.val : heatmap.val[p] = 0

C5_DegenerateMapIsNaN ==
    heatmap # <<>> /\ CamMax = 0 /\ \A p \in DOMAIN heatmap.val : heatmap.val[p] = NaN

(***************************************************************************)
(* gradcam.py, normalize_image and overlay_heatmap; alexnet.py,            *)
(* preprocess_image.  An operator that works on an array in place returns  *)
(* the array's storage after the call beside its return value.             *)
(***************************************************************************)
ISqrt(n) == CHOOSE r \in 0..n : r * r <= n /\ n < (r + 1) * (r + 1)
Clip(v, lo, hi) == IF v = NaN THEN NaN ELSE Max2(lo, Min2(v, hi))
\* .astype('uint8') / np.uint8 of a float; of NaN the value is unspecified
CastUint8(v) == IF v = NaN THEN NaN ELSE v \div Scale
HasNaN(x) == \E i \in DOMAIN x : x[i] = NaN

\* 1 / 1e-5: the epsilon of x.std() + 1e-5, in units of which the sum is taken
EpsInv == 100000

\* x -= x.mean(); x /= (x.std() + 1e-5); x *= 0.1; x += 0.5     (in place)
NormalizeInPlace(x) ==
    IF HasNaN(x) THEN [i \in DOMAIN x |-> NaN]
    ELSE
    LET n == Cardinality(DOMAIN x)
        mean == SumOver(DOMAIN x, x) \div n
        c == [i \in DOMAIN x |-> x[i] - mean]
        cmean == SumOver(DOMAIN x, c) \div n
        var == SumOver(DOMAIN x, [i \in DOMAIN x |-> (c[i] - cmean) * (c[i] - cmean)]) \div n
        std == ISqrt(var)
        d == [i \in DOMAIN x |-> (c[i] * EpsInv) \div (std * (EpsInv \div Scale) + 1)]
    IN  [i \in DOMAIN x |-> FMul(d[i], Scale \div 10) + Scale \div 2]

\* normalize_image(x).  np.squeeze gives a view of x, so the in-place
\* statements write into the caller's array; np.clip makes the first copy.
\* (image_dim_ordering() is 'tf' for this channels-last model: no transpose.)
normalize_image(x) ==
    LET a == NormalizeInPlace(x) IN
    [arg |-> a,
     ret |-> [i \in DOMAIN x |-> CastUint8(Clip(Clip(a[i], 0, Scale) * 255, 0, 255 * Scale))]]

\* cv2.applyColorMap(v, cv2.COLORMAP_JET): blue, green, red of the jet map
Abs(v) == IF v < 0 THEN 0 - v ELSE v
Jet(v) == <<Max2(0, Min2(255, 382 - Abs(4 * v - 255))),
            Max2(0, Min2(255, 382 - Abs(4 * v - 510))),
            Max2(0, Min2(255, 382 - Abs(4 * v - 765)))>>

\* overlay_heatmap(image, heatmap).  image[0, :] is a view of the caller's
\* array and image -= np.min(image) writes into it; np.minimum makes the copy.
\* The sum of the coloured map and the image broadcasts over the channels.
overlay_heatmap(image, hm) ==
    LET m == MinOf(Range(image))
        shifted == [i \in DOMAIN image |-> image[i] - m]
        capped == [i \in DOMAIN image |-> Min2(shifted[i], 255)]
        idx == {<<i[1], i[2], b>> : i \in DOMAIN image, b \in 1..3}
        sum == [j \in idx |->
                  Jet((255 * hm.val[<<j[1], j[2]>>]) \div Scale)[j[3]]
                  + capped[<<j[1], j[2], IF Channels = 1 THEN 1 ELSE j[3]>>]]
        top == MaxOf(Range(sum))
    IN  [image |-> shifted,
         heatmap |-> hm,
         ret |-> IF HasNaN(hm.val) THEN [j \in idx |-> NaN]
                 ELSE [j \in idx |-> (255 * sum[j]) \div top]]

\* alexnet.py preprocess_image: cv2.resize(image, (image_height, image_width)),
\* channel by channel
RawIdx == (1..RawSize) \X (1..RawSize) \X (1..Channels)
RawImages == [RawIdx -> 0..MaxPixel]
preprocess_image(image, image_height, image_width) ==
    LET plane(k) == cv2_resize([q \in Grid(RawSize, RawSize) |-> image[<<q[1], q[2], k>>]],
                               RawSize, RawSize, <<image_height, image_width>>)
        rows == image_width
        cols == image_height
    IN  [i \in (1..rows) \X (1..cols) \X (1..Channels) |-> plane(i[3]).val[<<i[1], i[2]>>]]

\* cv2.imwrite(path, image): writes when the file's directory exists, and
\* otherwise returns False without raising
imwrite(fs, ds, wd, path, image) ==
    LET f == Join(wd, path) IN
    IF Parent(f) \in ds /\ f \notin ds
    THEN [g \in DOMAIN fs \cup {f} |-> IF g = f THEN [kind |-> "image", data |-> image] ELSE fs[g]]
    ELSE fs

\* os.makedirs(path)
makedirs(ds, path) == ds \cup {SubSeq(path, 1, k) : k \in 1..Len(path)}

\* str(index) + suffix
ImageName(i, suffix) == <<(<<ToString(i), suffix>>)>>

(***************************************************************************)
(* gradcam.py, main                                                        *)
(***************************************************************************)
\* the model alexnet.py build_model assembles, as far as NumLayers goes:
\* ReLU convolutions, then linear dense layers, then the softmax activation
AlexNetLayers ==
    [i \in 1..NumLayers |->
        [name |-> IF i = NumLayers THEN "activation_1" ELSE LayerNames[i],
         activation |-> IF i <= 2 THEN "keras.activations.relu"
                        ELSE IF i = NumLayers THEN "keras.activations.softmax"
                        ELSE "keras.activations.linear"]]

\* layer_name = "conv2d_5"
layer_name == "conv2d_5"

\* output = os.path.join(os.getcwd(), args['o'])
Output == Join(cwd, args.o)

OutputDirs == {<<Dir("output")>>, <<Dir("viz"), Dir("run")>>}
ModelFiles ==
    {<<>>,
     (Join(Home, ModelPath) :> [kind |-> "model", layers |-> AlexNetLayers]),
     (Join(Home, ModelPath) :> [kind |-> "weights"])}

Init ==
    /\ RuleIdle /\ PersistIdle
    /\ conv_output = <<>> /\ grads_val = <<>> /\ heatmap = <<>>
    /\ height = ImgSize /\ width = ImgSize
    /\ registry = <<"Relu">>
    /\ model = <<>> /\ model0 = <<>> /\ guided_model = <<>> /\ saliency = <<>>
    /\ calls = 0 /\ gerr = "none"
    /\ cwd = Home
    /\ args \in [p : {ModelPath}, o : OutputDirs]
    /\ \E pre \in BOOLEAN :
          dirs = {Home, Join(Home, default_model_dir)}
                    \cup (IF pre THEN makedirs({}, Join(Home, args.o)) ELSE {})
    /\ files \in ModelFiles
    /\ pc = "start"
    /\ n_test = 0 /\ index = 0 /\ img = <<>> /\ predicted_class = 0
    /\ guided_gradcam = <<>> /\ err = "none"
    /\ img_pre = <<>> /\ fed_predict = <<>> /\ fed_gradcam = <<>>
    /\ fed_backprop = <<>> /\ heatmap_ret = <<>> /\ saliency_ret = <<>>
    /\ guided_ret = <<>>

Raise(e) == pc' = "error" /\ err' = e

\* lines 161-165: parse the arguments, create the output directory if absent
MakeOutputDir ==
    /\ pc = "start"
    /\ UNCHANGED persistVars
    /\ dirs' = IF Output \notin dirs THEN makedirs(dirs, Output) ELSE dirs
    /\ pc' = "load"
    /\ UNCHANGED <<cwd, files, args, n_test, index, img, predicted_class,
                   guided_gradcam, err, ruleVars, guidedVars, camVars, histVars>>

\* line 168: model = load_model(path)
LoadModel ==
    /\ pc = "load"
    /\ UNCHANGED persistVars
    /\ LET l == load_model(files, cwd, args.p) IN
        IF l.err # "none"
        THEN Raise(l.err) /\ UNCHANGED <<model, model0>>
        ELSE model' = l.layers /\ model0' = l.layers /\ pc' = "pick" /\ UNCHANGED err
    /\ UNCHANGED <<registry, guided_model, saliency, calls, gerr, fsVars, args, n_test,
                   index, img, predicted_class, guided_gradcam, ruleVars, camVars,
                   histVars>>

\* lines 171-172: load the dataset, index = random.randint(0, len(x_test));
\* randint draws from the closed range
PickSample ==
    /\ pc = "pick"
    /\ UNCHANGED persistVars
    /\ \E n \in 1..MaxTest :
        /\ n_test' = n
        /\ index' \in 0..n
    /\ pc' = "preprocess"
    /\ UNCHANGED <<args, img, predicted_class, guided_gradcam, err, ruleVars,
                   guidedVars, fsVars, camVars, histVars>>

\* lines 173-174: img = np.array([preprocess_image(x_test[index], 224, 224)]);
\* cv2.imwrite(os.path.join(path, str(index) + ".jpg"), img[0])
Preprocess ==
    /\ pc = "preprocess"
    /\ UNCHANGED persistVars
    /\ IF index >= n_test
       THEN Raise("IndexError") /\ UNCHANGED <<img, img_pre, files>>
       ELSE \E raw \in RawImages :
            LET i == preprocess_image(raw, ImgSize, ImgSize) IN
            /\ img' = i
            /\ img_pre' = i
            /\ files' = imwrite(files, dirs, cwd, Join(args.p, ImageName(index, ".jpg")), i)
            /\ pc' = "predict"
            /\ UNCHANGED err
    /\ UNCHANGED <<cwd, dirs, args, n_test, index, predicted_class, guided_gradcam,
                   ruleVars, guidedVars, camVars, fed_predict, fed_gradcam,
                   fed_backprop, heatmap_ret, saliency_ret, guided_ret>>

\* lines 177-180: predictions = model.predict(img); the arg-max; two prints
Predict ==
    /\ pc = "predict"
    /\ UNCHANGED persistVars
    /\ predicted_class' \in 1..NumClasses
    /\ fed_predict' = img
    /\ pc' = "grad_cam"
    /\ UNCHANGED <<args, n_test, index, img, guided_gradcam, err, ruleVars,
                   guidedVars, fsVars, camVars, img_pre, fed_gradcam, fed_backprop,
                   heatmap_ret, saliency_ret, guided_ret>>

\* line 184: heatmap = grad_cam(model, img, predicted_class, layer_name)
GradCam ==
    /\ pc = "grad_cam"
    /\ UNCHANGED persistVars
    /\ fed_gradcam' = img
    /\ IF ~HasLayer(model, layer_name)
       THEN Raise("ValueError") /\ UNCHANGED <<heatmap, heatmap_ret>>
       ELSE \E out \in ConvOutputs, g \in GradVals :
            /\ heatmap' = grad_cam(out, g, height, width)
            /\ heatmap_ret' = heatmap'
            /\ pc' = "write_gradcam"
            /\ UNCHANGED err
    /\ UNCHANGED <<conv_output, grads_val, height, width, args, n_test, index, img,
                   predicted_class, guided_gradcam, ruleVars, guidedVars, fsVars,
                   img_pre, fed_predict, fed_backprop, saliency_ret, guided_ret>>

\* line 185: cv2.imwrite(<output>/<index>_gradcam.jpg, overlay_heatmap(img, heatmap))
WriteGradcam ==
    /\ pc = "write_gradcam"
    /\ UNCHANGED persistVars
    /\ LET r == overlay_heatmap(img, heatmap) IN
        /\ img' = r.image
        /\ heatmap' = r.heatmap
        /\ files' = imwrite(files, dirs, <<>>,
                            Join(Output, ImageName(index, "_gradcam.jpg")), r.ret)
    /\ pc' = "guided"
    /\ UNCHANGED <<cwd, dirs, conv_output, grads_val, height, width, args, n_test,
                   index, predicted_class, guided_gradcam, err, ruleVars, guidedVars,
                   histVars>>

\* line 188: saliency = guided_backprop(model, img, layer_name, path)
GuidedBackprop ==
    /\ pc = "guided"
    /\ UNCHANGED persistVars
    /\ fed_backprop' = img
    /\ \E sal \in SaliencyTensors(img) :
        /\ guided_backprop(img, layer_name, args.p, sal)
        /\ saliency_ret' = saliency'
    /\ IF gerr' # "none" THEN Raise(gerr') ELSE pc' = "write_saliency" /\ UNCHANGED err
    /\ UNCHANGED <<args, n_test, index, img, predicted_class, guided_gradcam, ruleVars,
                   fsVars, camVars, img_pre, fed_predict, fed_gradcam, heatmap_ret,
                   guided_ret>>

\* line 189: cv2.imwrite(<output>/<index>_saliency.jpg, normalize_image(saliency))
WriteSaliency ==
    /\ pc = "write_saliency"
    /\ UNCHANGED persistVars
    /\ LET r == normalize_image(saliency) IN
        /\ saliency' = r.arg
        /\ files' = imwrite(files, dirs, <<>>,
                            Join(Output, ImageName(index, "_saliency.jpg")), r.ret)
    /\ pc' = "combine"
    /\ UNCHANGED <<cwd, dirs, registry, model, model0, guided_model, calls, gerr,
                   args, n_test, index, img, predicted_class, guided_gradcam, err,
                   ruleVars, camVars, histVars>>

\* line 192: guided_gradcam = saliency * heatmap[..., np.newaxis]
Broadcast(sal, hm) ==
    [i \in DOMAIN sal |-> FMul(sal[i], hm.val[<<i[1], i[2]>>])]

Combine ==
    /\ pc = "combine"
    /\ UNCHANGED persistVars
    /\ guided_gradcam' = Broadcast(saliency, heatmap)
    /\ guided_ret' = guided_gradcam'
    /\ pc' = "write_guided"
    /\ UNCHANGED <<args, n_test, index, img, predicted_class, err, ruleVars,
                   guidedVars, fsVars, camVars, img_pre, fed_predict, fed_gradcam,
                   fed_backprop, heatmap_ret, saliency_ret>>

\* line 193: cv2.imwrite(<output>/<index>_guided-gradcam.jpg, normalize_image(guided_gradcam))
WriteGuided ==
    /\ pc = "write_guided"
    /\ UNCHANGED persistVars
    /\ LET r == normalize_image(guided_gradcam) IN
        /\ guided_gradcam' = r.arg
        /\ files' = imwrite(files, dirs, <<>>,
                            Join(Output, ImageName(index, "_guided-gradcam.jpg")), r.ret)
    /\ pc' = "done"
    /\ UNCHANGED <<cwd, dirs, args, n_test, index, img, predicted_class, err,
                   ruleVars, guidedVars, camVars, histVars>>

Next ==
    \/ MakeOutputDir
    \/ LoadModel
    \/ PickSample
    \/ Preprocess
    \/ Predict
    \/ GradCam
    \/ WriteGradcam
    \/ GuidedBackprop
    \/ WriteSaliency
    \/ Combine
    \/ WriteGuided

Spec == Init /\ [][Next]_vars

ImageFiles == {f \in DOMAIN files : files[f].kind = "image"}

(***************************************************************************)
(* alexnet.py, main: build, train, evaluate and save; then a run of        *)
(* gradcam.py with default arguments in the same working directory         *)
(***************************************************************************)
ArgStrings == {"alexnet.py", "model.h5"}
Argvs == UNION {[1..n -> ArgStrings] : n \in 1..MaxArgs}

\* model.save_weights(filepath, overwrite): an HDF5 file of the weights alone
save_weights(fs, filepath, m) ==
    [g \in DOMAIN fs \cup {filepath} |->
        IF g = filepath THEN [kind |-> "weights", weights |-> m.weights] ELSE fs[g]]

PersistInit ==
    /\ RuleIdle /\ GuidedIdle /\ CamIdle /\ MainIdle
    /\ cwd = Home
    /\ argv \in Argvs
    /\ \E pre \in BOOLEAN, old \in ModelFiles :
        /\ dirs = {Home} \cup (IF pre THEN {Join(Home, default_model_dir)} ELSE {})
        /\ files = IF pre THEN old ELSE <<>>
    /\ tpc = "build"
    /\ alex_model = <<>>
    /\ load_result = "pending"

\* lines 168-169: model = build_model(class_count=100)
Build ==
    /\ tpc = "build"
    /\ alex_model' = [layers |-> AlexNetLayers, weights |-> 0]
    /\ tpc' = "train"
    /\ UNCHANGED <<argv, load_result, ruleVars, guidedVars, fsVars, camVars, mainVars,
                   histVars>>

\* line 170: train_model(model, class_count=100)
Train ==
    /\ tpc = "train"
    /\ \E w \in 1..MaxWeight : alex_model' = [alex_model EXCEPT !.weights = w]
    /\ tpc' = "evaluate"
    /\ UNCHANGED <<argv, load_result, ruleVars, guidedVars, fsVars, camVars, mainVars,
                   histVars>>

\* line 173: evaluate(model, class_count=100).  It calls fit_generator with a
\* steps keyword and evaluate_generator without a generator: whether Keras
\* accepts the calls is the library's decision.
Evaluate ==
    /\ tpc = "evaluate"
    /\ \E raises \in BOOLEAN : tpc' = IF raises THEN "error" ELSE "save"
    /\ UNCHANGED <<argv, alex_model, load_result, ruleVars, guidedVars, fsVars, camVars,
                   mainVars, histVars>>

\* lines 176-185: choose the path, create saved_models, model.save_weights
Save ==
    /\ tpc = "save"
    /\ LET save_dir == Join(cwd, default_model_dir)
           model_path == IF Len(argv) = 0 THEN Join(cwd, <<Dir(argv[1])>>)
                         ELSE Join(save_dir, default_model_name)
       IN  /\ dirs' = IF Len(argv) # 0 /\ save_dir \notin dirs
                      THEN makedirs(dirs, save_dir) ELSE dirs
           /\ files' = save_weights(files, model_path, alex_model)
    /\ tpc' = "saved"
    /\ UNCHANGED <<cwd, argv, alex_model, load_result, ruleVars, guidedVars, camVars,
                   mainVars, histVars>>

\* gradcam.py lines 161-168 with the default -p: model = load_model(path)
GradcamLoad ==
    /\ tpc = "saved"
    /\ load_result = "pending"
    /\ LET l == load_model(files, cwd, ModelPath) IN
        load_result' = IF l.err = "none" THEN "ok" ELSE l.err
    /\ UNCHANGED <<tpc, argv, alex_model, ruleVars, guidedVars, fsVars, camVars,
                   mainVars, histVars>>

PersistNext ==
    \/ Build
    \/ Train
    \/ Evaluate
    \/ Save
    \/ GradcamLoad

SpecPersist == PersistInit /\ [][PersistNext]_vars

\* C8: what alexnet.py saves at the default path is a model gradcam.py's
\* load_model loads: the load after a training run does not fail.
C8_SavedModelLoads ==
    /\ load_result \in {"pending", "ok"}
    /\ tpc = "saved" => files[Join(cwd, ModelPath)].kind = "model"

C8_WeightsOnlySaved ==
    /\ tpc = "saved"
    /\ files[Join(cwd, ModelPath)].kind = "weights"
    /\ load_result = "ValueError"

(***************************************************************************)
(* The claims about gradcam.py main                                        *)
(***************************************************************************)
Suffixes == {".jpg", "_gradcam.jpg", "_saliency.jpg", "_guided-gradcam.jpg"}

\* C1: after a completed run the output directory exists and the image files
\* written are exactly the four named by the sample index, all inside it.
C1_FourFilesInOutput ==
    pc = "done" =>
        /\ Output \in dirs
        /\ ImageFiles = {Join(Output, ImageName(index, sfx)) : sfx \in Suffixes}

\* what a completed run leaves: three files, the input image is not among them
C1_InputImageMissing ==
    /\ pc = "done"
    /\ Join(Output, ImageName(index, ".jpg")) \notin DOMAIN files
    /\ Cardinality(ImageFiles) = 3

\* C7: normalize_image and overlay_heatmap leave the arrays they are passed
\* as they were: a call changes none of their elements.
C7_ArgumentsUntouched ==
    [][ /\ (pc = "write_gradcam" => (img' = img /\ heatmap' = heatmap))
        /\ (pc = "write_saliency" => (saliency' = saliency))
        /\ (pc = "write_guided" => (guided_gradcam' = guided_gradcam)) ]_vars

C7_ImageShifted ==
    pc = "guided" /\ img # img_pre /\ heatmap = heatmap_ret

\* C9: the guided Grad-CAM array is the product of the saliency as
\* guided_backprop returned it and the heatmap as grad_cam returned it, and
\* guided_backprop received the image values grad_cam and predict received.
C9_ProductOfReturnedValues ==
    /\ fed_backprop # <<>> =>
          (fed_backprop = fed_gradcam /\ fed_gradcam = fed_predict)
    /\ guided_ret # <<>> => guided_ret = Broadcast(saliency_ret, heatmap_ret)

C9_SaliencyAltered ==
    /\ guided_ret # <<>>
    /\ guided_ret # Broadcast(saliency_ret, heatmap_ret)
    /\ fed_backprop # fed_gradcam

\* C10: the sample index drawn is a valid index into the test set, so the
\* lookups x_test[index] and y_test[index] never fail.
C10_IndexInRange ==
    /\ pc = "preprocess" => (0 <= index /\ index < n_test)
    /\ err # "IndexError"

C10_IndexPastEnd ==
    index = n_test /\ err = "IndexError"

====
